---- MODULE Spec2Model ----
(***************************************************************************)
(* Bullion tracker: the price scraper (scripts/scrape_prices.py) and the   *)
(* deal optimizer of the site generator (scripts/generate_site.py).        *)
(*                                                                         *)
(* Text is a sequence of one-character strings.  Python floats are modelled *)
(* by exact rationals <<numerator, denominator>> in lowest terms, so the   *)
(* results are those of the arithmetic the code writes down, without the   *)
(* representation error of binary floating point.                          *)
(***************************************************************************)
EXTENDS Integers, Sequences, FiniteSets, TLC

VARIABLES pc, all_products, returned, fetched, result, catalog, query, deals

vars == <<pc, all_products, returned, fetched, result, catalog, query, deals>>

(***************************************************************************)
(* Values                                                                  *)
(***************************************************************************)

\* Python's None, for the optional numbers and texts (compares with tuples).
None == <<>>

Abs(x) == IF x < 0 THEN -x ELSE x

RECURSIVE GCD(_, _)
GCD(a, b) == IF b = 0 THEN a ELSE GCD(b, a % b)

\* The rational n/d, d > 0, in lowest terms.
Rat(n, d) == LET g == GCD(Abs(n), d) IN <<n \div g, d \div g>>

RInt(n) == <<n, 1>>

RMul(a, b) ==
    LET g1 == GCD(Abs(a[1]), b[2])
        g2 == GCD(Abs(b[1]), a[2])
    IN  Rat((a[1] \div g1) * (b[1] \div g2), (a[2] \div g2) * (b[2] \div g1))

\* a / b for b > 0.
RDiv(a, b) == RMul(a, <<b[2], b[1]>>)

RAdd(a, b) == Rat(a[1] * b[2] + b[1] * a[2], a[2] * b[2])

RSub(a, b) == Rat(a[1] * b[2] - b[1] * a[2], a[2] * b[2])

RAbs(a) == <<Abs(a[1]), a[2]>>

RLe(a, b) == a[1] * b[2] <= b[1] * a[2]

RLt(a, b) == a[1] * b[2] < b[1] * a[2]

RECURSIVE Pow10(_)
Pow10(k) == IF k = 0 THEN 1 ELSE 10 * Pow10(k - 1)

\* The integer nearest to n/d (d > 0), a tie going to the even neighbour.
RoundHalfEvenDiv(n, d) ==
    LET q == n \div d
        r == n % d
    IN  IF 2 * r < d THEN q
        ELSE IF 2 * r > d THEN q + 1
        ELSE IF q % 2 = 0 THEN q ELSE q + 1

\* Python's round(x): x to the nearest integer, ties to even.
RoundHalfEven(x) == RoundHalfEvenDiv(x[1], x[2])

\* Python's round(x, k): x to k decimals, ties to even.
Round(x, k) ==
    LET q == x[1] \div x[2]
        r == x[1] % x[2]
    IN  RAdd(RInt(q), Rat(RoundHalfEvenDiv(r * Pow10(k), x[2]), Pow10(k)))

(***************************************************************************)
(* Text                                                                    *)
(***************************************************************************)

Digits == {"0", "1", "2", "3", "4", "5", "6", "7", "8", "9"}

NumChars == Digits \cup {"."}

Spaces == {" "}

Letters == {"a", "b", "c", "d", "e", "f", "g", "h", "i", "j", "k", "l", "m",
            "n", "o", "p", "q", "r", "s", "t", "u", "v", "w", "x", "y", "z"}

\* The characters of the regular expressions' \w.
WordChars == Letters \cup Digits \cup {"_", "B", "G", "K", "O", "Z"}

\* str.lower(), on the capitals the texts of the model use.
LowerChar(c) ==
    CASE c = "B" -> "b"
      [] c = "G" -> "g"
      [] c = "K" -> "k"
      [] c = "O" -> "o"
      [] c = "Z" -> "z"
      [] OTHER -> c

Lower(s) == [i \in 1..Len(s) |-> LowerChar(s[i])]

\* str.strip(): the text without its leading and trailing white space.
Strip(s) ==
    LET keep == {i \in 1..Len(s) : s[i] \notin Spaces}
    IN  IF keep = {} THEN <<>>
        ELSE LET lo == CHOOSE i \in keep : \A j \in keep : i <= j
                 hi == CHOOSE i \in keep : \A j \in keep : j <= i
             IN  SubSeq(s, lo, hi)

\* str.replace(c, ''): the text without the characters of drop.
Without(s, drop) == SelectSeq(s, LAMBDA c : c \notin drop)

\* The text has lit at position i.
HasAt(s, i, lit) ==
    /\ i >= 1
    /\ i + Len(lit) - 1 <= Len(s)
    /\ \A k \in 1..Len(lit) : s[i + k - 1] = lit[k]

\* Python's `lit in s`.
Contains(s, lit) == \E i \in 1..(Len(s) + 1) : HasAt(s, i, lit)

\* The position after the longest run of characters of set that starts at i.
RunEnd(s, i, set) ==
    CHOOSE e \in i..(Len(s) + 1) :
        /\ \A k \in i..(e - 1) : s[k] \in set
        /\ e = Len(s) + 1 \/ s[e] \notin set

Min(S) == CHOOSE x \in S : \A y \in S : x <= y

RECURSIVE DigitsValue(_)
DigitsValue(s) ==
    IF s = <<>> THEN 0
    ELSE 10 * DigitsValue(SubSeq(s, 1, Len(s) - 1))
         + (CHOOSE v \in 0..9 : <<"0", "1", "2", "3", "4", "5", "6", "7", "8", "9">>[v + 1] = s[Len(s)])

\* Python's float(s) accepts s: for a text of digits and dots, one dot at most
\* and a digit at least (the texts of the model carry no sign, exponent, inf or nan).
IsFloat(s) ==
    /\ \A i \in 1..Len(s) : s[i] \in NumChars
    /\ Cardinality({i \in 1..Len(s) : s[i] = "."}) <= 1
    /\ \E i \in 1..Len(s) : s[i] \in Digits

\* Python's float(s) for a text it accepts.
FloatValue(s) ==
    LET dots == {i \in 1..Len(s) : s[i] = "."}
        decimals == IF dots = {} THEN 0 ELSE Len(s) - Min(dots)
    IN  Rat(DigitsValue(Without(s, {"."})), Pow10(decimals))

(***************************************************************************)
(* Text normalizer (scrape_prices.py)                                      *)
(***************************************************************************)

\* What a call gives: the value it returns, or that it raised.
Returns(v) == [raised |-> FALSE, value |-> v]

Raises == [raised |-> TRUE, value |-> None]

TROY_OZ_PER_GRAM == Rat(10000, 311035)

TROY_OZ_PER_KG == Rat(10000000, 311035)

\* patterns with the ounce pattern tried before the fraction pattern.
patterns_oz_first == <<"oz", "frac_oz", "kg", "g", "tael">>

\* The unit patterns of parse_weight_oz, in the order they are tried.
patterns == <<"frac_oz", "oz", "kg", "g", "tael">>

\* The unit's literal stands at j: oz, kg, (?:gram|g\b), (?:tael).
UnitAt(s, j, unit) ==
    CASE unit = "oz" -> HasAt(s, j, <<"o", "z">>)
      [] unit = "kg" -> HasAt(s, j, <<"k", "g">>)
      [] unit = "g" ->
            \/ HasAt(s, j, <<"g", "r", "a", "m">>)
            \/ /\ HasAt(s, j, <<"g">>)
               /\ j + 1 > Len(s) \/ s[j + 1] \notin WordChars
      [] unit = "tael" -> HasAt(s, j, <<"t", "a", "e", "l">>)
      [] OTHER -> FALSE

\* ([\d.]+)\s*unit matches at i.
NumUnitAt(s, i, unit) ==
    /\ s[i] \in NumChars
    /\ UnitAt(s, RunEnd(s, RunEnd(s, i, NumChars), Spaces), unit)

\* (\d+/\d+)\s*oz matches at i.
FracAt(s, i) ==
    /\ s[i] \in Digits
    /\ LET e1 == RunEnd(s, i, Digits)
       IN  /\ e1 + 1 <= Len(s)
           /\ s[e1] = "/"
           /\ s[e1 + 1] \in Digits
           /\ UnitAt(s, RunEnd(s, RunEnd(s, e1 + 1, Digits), Spaces), "oz")

\* The positions at which the unit's pattern matches: re.search takes the first.
MatchStarts(s, unit) ==
    IF unit = "frac_oz" THEN {i \in 1..Len(s) : FracAt(s, i)}
    ELSE {i \in 1..Len(s) : NumUnitAt(s, i, unit)}

\* The weight the matched unit pattern gives; float() raises ValueError on a
\* number text it does not accept, the division ZeroDivisionError on a/0.
UnitWeight(s, unit) ==
    LET i == Min(MatchStarts(s, unit))
    IN  IF unit = "frac_oz"
        THEN LET e1 == RunEnd(s, i, Digits)
                 e2 == RunEnd(s, e1 + 1, Digits)
                 a == FloatValue(SubSeq(s, i, e1 - 1))
                 b == FloatValue(SubSeq(s, e1 + 1, e2 - 1))
             IN  IF b[1] = 0 THEN Raises ELSE Returns(RDiv(a, b))
        ELSE LET val_str == SubSeq(s, i, RunEnd(s, i, NumChars) - 1)
                 val == FloatValue(val_str)
             IN  IF ~IsFloat(val_str) THEN Raises
                 ELSE CASE unit = "oz" -> Returns(val)
                        [] unit = "kg" -> Returns(RMul(val, TROY_OZ_PER_KG))
                        [] unit = "g" -> Returns(RMul(val, TROY_OZ_PER_GRAM))
                        [] unit = "tael" ->
                              Returns(RMul(RMul(val, Rat(375, 10)), TROY_OZ_PER_GRAM))

\* parse_weight_oz(name): the weight in troy ounces, None, or an exception.
parse_weight_oz(name) ==
    LET name_lower == Strip(Lower(name))
        matching == {k \in 1..Len(patterns) : MatchStarts(name_lower, patterns[k]) # {}}
    IN  IF matching # {} THEN UnitWeight(name_lower, patterns[Min(matching)])
        ELSE IF \/ Contains(name_lower, <<"m", "a", "p", "l", "e", "g", "r", "a", "m", "2", "5">>)
                \/ Contains(name_lower, <<"m", "a", "p", "l", "e", "g", "r", "a", "m", " ", "2", "5">>)
             THEN Returns(RMul(RInt(25), TROY_OZ_PER_GRAM))
        ELSE Returns(None)

UnallocatedWords ==
    {<<"u", "n", "a", "l", "l", "o", "c">>, <<"p", "o", "o", "l">>,
     <<"p", "o", "o", "l", " ", "a", "l", "l", "o", "c", "a", "t", "e", "d">>}

\* CoinWords with every name taken off the list.
CoinWordsNone == {}

CoinWords ==
    {<<"c", "o", "i", "n">>,
     <<"k", "a", "n", "g", "a", "r", "o", "o">>,
     <<"k", "o", "o", "k", "a", "b", "u", "r", "r", "a">>,
     <<"k", "o", "a", "l", "a">>,
     <<"l", "u", "n", "a", "r">>,
     <<"b", "r", "i", "t", "a", "n", "n", "i", "a">>,
     <<"e", "a", "g", "l", "e">>,
     <<"m", "a", "p", "l", "e">>,
     <<"p", "h", "i", "l", "h", "a", "r", "m", "o", "n", "i", "c">>,
     <<"b", "u", "f", "f", "a", "l", "o">>,
     <<"k", "r", "u", "g", "e", "r", "r", "a", "n", "d">>,
     <<"s", "o", "v", "e", "r", "e", "i", "g", "n">>,
     <<"n", "u", "g", "g", "e", "t">>,
     <<"d", "r", "a", "g", "o", "n">>,
     <<"s", "n", "a", "k", "e">>,
     <<"h", "o", "r", "s", "e">>,
     <<"e", "m", "u">>,
     <<"s", "w", "a", "n">>,
     <<"p", "h", "o", "e", "n", "i", "x">>,
     <<"g", "u", "a", "r", "d", "i", "a", "n">>,
     <<"p", "r", "o", "c", "l", "a", "m", "a", "t", "i", "o", "n">>,
     <<"o", "l", "y", "m", "p", "i", "c", "s">>,
     <<"r", "e", "c", "t", "a", "n", "g", "u", "l", "a", "r", " ", "c", "o", "i", "n">>}

ContainsAny(s, words) == \E w \in words : Contains(s, w)

\* classify_product_type(name, category_hint)
classify_product_type(name, category_hint) ==
    LET name_lower == Lower(name)
        cat_lower == Lower(category_hint)
    IN  IF ContainsAny(name_lower, UnallocatedWords) THEN "unallocated"
        ELSE IF ContainsAny(name_lower, CoinWords) THEN "coin"
        ELSE IF Contains(cat_lower, <<"c", "o", "i", "n">>) THEN "coin"
        ELSE IF ContainsAny(name_lower, {<<"m", "i", "n", "t", "e", "d">>,
                                         <<"t", "a", "b", "l", "e", "t">>})
             THEN "minted_bar"
        ELSE IF Contains(name_lower, <<"r", "o", "u", "n", "d">>) THEN "round"
        ELSE IF ContainsAny(name_lower, {<<"b", "a", "r">>,
                                         <<"b", "u", "l", "l", "i", "o", "n">>,
                                         <<"c", "a", "s", "t">>,
                                         <<"i", "n", "g", "o", "t">>})
             THEN "bar"
        ELSE IF Contains(cat_lower, <<"c", "a", "s", "t">>) THEN "bar"
        ELSE IF Contains(cat_lower, <<"m", "i", "n", "t", "e", "d">>) THEN "minted_bar"
        ELSE "bar"

\* classify_metal with silver looked for before platinum.
classify_metal_silver_first(name, section) ==
    LET name_lower == Lower(name \o <<" ">> \o section)
    IN  IF Contains(name_lower, <<"s", "i", "l", "v", "e", "r">>) THEN "silver"
        ELSE IF Contains(name_lower, <<"p", "l", "a", "t", "i", "n", "u", "m">>) THEN "platinum"
        ELSE IF Contains(name_lower, <<"p", "a", "l", "l", "a", "d", "i", "u", "m">>)
             THEN "palladium"
        ELSE "gold"

\* classify_metal(name, section)
classify_metal(name, section) ==
    LET name_lower == Lower(name \o <<" ">> \o section)
    IN  IF Contains(name_lower, <<"p", "l", "a", "t", "i", "n", "u", "m">>) THEN "platinum"
        ELSE IF Contains(name_lower, <<"s", "i", "l", "v", "e", "r">>) THEN "silver"
        ELSE IF Contains(name_lower, <<"p", "a", "l", "l", "a", "d", "i", "u", "m">>)
             THEN "palladium"
        ELSE "gold"

\* parse_price(s): the amount, or None for an empty or malformed text.
parse_price(s) ==
    IF s = None THEN None
    ELSE LET t == Without(Strip(s), {"$", ",", " "})
         IN  IF IsFloat(t) THEN FloatValue(t) ELSE None

\* The values a caller hands to parse_price: a text, or what json.loads
\* gives for a number.
Text(chars) == [type |-> "str", value |-> chars]

Number(x) == [type |-> "number", value |-> x]

\* The call parse_price(s): `not s` returns None for an empty text and for
\* zero; s.strip() raises AttributeError for any other number; float() in
\* the try block returns, or raises the ValueError that is caught.
parse_price_call(s) ==
    IF s.type = "number"
    THEN IF s.value[1] = 0 THEN Returns(None) ELSE Raises
    ELSE Returns(parse_price(s.value))

(***************************************************************************)
(* Sequences                                                               *)
(***************************************************************************)

\* The entries of a sequence of optional values that are not None, in order.
Present(seq) == SelectSeq(seq, LAMBDA x : x # None)

RECURSIVE Concat(_)
Concat(seqs) == IF seqs = <<>> THEN <<>> ELSE Head(seqs) \o Concat(Tail(seqs))

\* InsertByKey with x put before the entries of an equal key.
RECURSIVE InsertBeforeEqual(_, _)
InsertBeforeEqual(sorted, x) ==
    IF sorted = <<>> THEN <<x>>
    ELSE IF RLt(Head(sorted).key, x.key)
         THEN <<Head(sorted)>> \o InsertBeforeEqual(Tail(sorted), x)
    ELSE <<x>> \o sorted

\* x goes behind every entry whose key is not greater: equal keys keep their order.
RECURSIVE InsertByKey(_, _)
InsertByKey(sorted, x) ==
    IF sorted = <<>> THEN <<x>>
    ELSE IF RLe(Head(sorted).key, x.key) THEN <<Head(sorted)>> \o InsertByKey(Tail(sorted), x)
    ELSE <<x>> \o sorted

\* list.sort(key=...) and sorted(..., key=...) on entries [key, item]: a stable
\* sort, ascending by key.
RECURSIVE StableSort(_)
StableSort(entries) ==
    IF entries = <<>> THEN <<>>
    ELSE InsertByKey(StableSort(SubSeq(entries, 1, Len(entries) - 1)), entries[Len(entries)])

(***************************************************************************)
(* Fetch capability                                                        *)
(***************************************************************************)

\* What the network does to one request: the body arrives, urlopen fails with
\* URLError/HTTPError, or the read fails with an error fetch_url does not catch.
FetchOk(body) == [status |-> "ok", body |-> body]

FetchFailed == [status |-> "failed", body |-> None]

FetchRaised == [status |-> "raised", body |-> None]

\* fetch_url(url): the text, None after a caught URLError, or the exception.
fetch_url(net) ==
    IF net.status = "raised" THEN Raises
    ELSE IF net.status = "failed" THEN Returns(None)
    ELSE Returns(net.body)

(***************************************************************************)
(* Table-layout adapter: Ainslie Bullion                                   *)
(*                                                                         *)
(* The page is the sequence of its section headers and of its product rows *)
(* (the three-field matches of the row pattern), in page order.            *)
(***************************************************************************)

Header(label) == [kind |-> "header", label |-> label]

Row(name, sell_back, buy_price) ==
    [kind |-> "row", name |-> name, sell_back |-> sell_back, buy_price |-> buy_price]

AinslieLabels == <<"Gold Products", "Silver Products", "Platinum Products">>

\* label.split()[0].lower()
LabelMetal(label) ==
    CASE label = "Gold Products" -> "gold"
      [] label = "Silver Products" -> "silver"
      [] label = "Platinum Products" -> "platinum"

\* html.find(label): the first position of the header, 0 when it is not there.
Find(html, label) ==
    LET at == {i \in 1..Len(html) : html[i] = Header(label)}
    IN  IF at = {} THEN 0 ELSE Min(at)

\* The (label, idx) pairs of the headers found, in the order of the labels.
section_boundaries(html) ==
    LET found == [k \in 1..Len(AinslieLabels) |->
                    IF Find(html, AinslieLabels[k]) > 0
                    THEN [label |-> AinslieLabels[k], idx |-> Find(html, AinslieLabels[k])]
                    ELSE None]
    IN  Present(found)

\* The (metal, section) pairs: each section runs from its header to the next
\* boundary of the list, or to the end of the page (html[start:end]).
metal_sections(html) ==
    LET bounds == section_boundaries(html)
    IN  [i \in 1..Len(bounds) |->
            LET start == bounds[i].idx
                end == IF i + 1 <= Len(bounds) THEN bounds[i + 1].idx ELSE Len(html) + 1
            IN  [metal |-> LabelMetal(bounds[i].label),
                 section_html |-> SubSeq(html, start, end - 1)]]

\* re.findall of the row pattern in a section.
product_rows(section_html) == SelectSeq(section_html, LAMBDA e : e.kind = "row")

\* One iteration of the row loop: the product, None when the row is skipped, or
\* the exception of parse_weight_oz.
AinslieProduct(metal, row) ==
    LET weight == parse_weight_oz(row.name)
        weight_oz == weight.value
        buy_f == parse_price(row.buy_price)
        sell_f == parse_price(row.sell_back)
    IN  IF weight.raised THEN Raises
        ELSE IF weight_oz = None \/ weight_oz[1] = 0 THEN Returns(None)
        ELSE IF buy_f = None THEN Returns(None)
        ELSE Returns([dealer |-> "Ainslie Bullion",
                      dealer_id |-> "ainslie",
                      name |-> Strip(row.name),
                      metal |-> metal,
                      type |-> classify_product_type(row.name, <<>>),
                      weight_oz |-> Round(weight_oz, 4),
                      buy_price |-> buy_f,
                      sell_back_price |-> sell_f,
                      price_per_oz |-> IF weight_oz[1] > 0
                                       THEN Round(RDiv(buy_f, weight_oz), 2) ELSE None,
                      url |-> "https://ainsliebullion.com.au/Charts",
                      in_stock |-> TRUE])

\* The outcomes of a loop's iterations as the outcome of the loop: the list of
\* the products appended, or the exception of the first iteration that raised.
Collect(outcomes) ==
    IF \E i \in 1..Len(outcomes) : outcomes[i].raised THEN Raises
    ELSE Returns(Present([i \in 1..Len(outcomes) |-> outcomes[i].value]))

\* scrape_ainslie(): the products of the page, or an exception.
scrape_ainslie(net) ==
    LET page == fetch_url(net)
        html == page.value
        sections == metal_sections(html)
        outcomes == Concat([i \in 1..Len(sections) |->
                        LET rows == product_rows(sections[i].section_html)
                        IN  [k \in 1..Len(rows) |-> AinslieProduct(sections[i].metal, rows[k])]])
    IN  IF page.raised THEN Raises
        ELSE IF html = None THEN Returns(<<>>)
        ELSE Collect(outcomes)

(***************************************************************************)
(* Item-grid adapter: ABC Bullion                                          *)
(*                                                                         *)
(* A store page is the sequence of its item blocks.  A block carries the   *)
(* title the name patterns find (None: no match), the text the price       *)
(* pattern finds (None: no match), and what the page holds for the block's *)
(* item id: no id, no JSON.parse for the id, text json.loads rejects, or   *)
(* the tier table as its (key, tier) members in document order.            *)
(***************************************************************************)

NoItemId == [kind |-> "no_id", members |-> <<>>]

NoJson == [kind |-> "no_json", members |-> <<>>]

BadJson == [kind |-> "bad_json", members |-> <<>>]

TierTable(members) == [kind |-> "table", members |-> members]

Tier(key, price, min, max) == [key |-> key, price |-> price, min |-> min, max |-> max]

Block(name, price, json) == [name |-> name, price |-> price, json |-> json]

\* The sort key of tier_key: int(x) if x.isdigit() else 999.
TierOrder(tier_key) ==
    IF tier_key # <<>> /\ \A i \in 1..Len(tier_key) : tier_key[i] \in Digits
    THEN DigitsValue(tier_key) ELSE 999

\* The tiers list built from the table: the members in the order of their keys,
\* those without a price that parses to a nonzero amount left out.
TiersOf(members) ==
    LET ordered == StableSort([i \in 1..Len(members) |->
                        [key |-> RInt(TierOrder(members[i].key)), item |-> members[i]]])
        built == [i \in 1..Len(ordered) |->
                    LET tier == ordered[i].item
                        t_price == parse_price(tier.price)
                    IN  IF t_price # None /\ t_price[1] # 0
                        THEN [min_qty |-> tier.min, max_qty |-> tier.max, price |-> t_price]
                        ELSE None]
    IN  Present(built)

\* WithVolumePricing with the first tier's price taken over and price_per_oz
\* left as it was computed from the listed price.
WithVolumePricingStale(product, weight_oz, json) ==
    IF json.kind # "table" THEN product
    ELSE LET tiers == TiersOf(json.members)
             priced == IF tiers # <<>>
                       THEN [product EXCEPT !.buy_price = tiers[1].price]
                       ELSE product
         IN  IF Len(tiers) > 1
             THEN [f \in DOMAIN priced \cup {"volume_pricing"} |->
                      IF f = "volume_pricing" THEN tiers ELSE priced[f]]
             ELSE priced

\* WithVolumePricing with the price taken over only from a list of more than
\* one tier.
WithVolumePricingAboveOne(product, weight_oz, json) ==
    IF json.kind # "table" THEN product
    ELSE LET tiers == TiersOf(json.members)
             priced == [product EXCEPT !.buy_price = tiers[1].price,
                                       !.price_per_oz =
                                           Round(RDiv(tiers[1].price, weight_oz), 2)]
         IN  IF Len(tiers) > 1
             THEN [f \in DOMAIN priced \cup {"volume_pricing"} |->
                      IF f = "volume_pricing" THEN tiers ELSE priced[f]]
             ELSE product

\* The product dictionary after the volume pricing of the block is applied.
WithVolumePricing(product, weight_oz, json) ==
    IF json.kind # "table" THEN product
    ELSE LET tiers == TiersOf(json.members)
             priced == IF tiers # <<>>
                       THEN [product EXCEPT !.buy_price = tiers[1].price,
                                            !.price_per_oz =
                                                Round(RDiv(tiers[1].price, weight_oz), 2)]
                       ELSE product
         IN  IF Len(tiers) > 1
             THEN [f \in DOMAIN priced \cup {"volume_pricing"} |->
                      IF f = "volume_pricing" THEN tiers ELSE priced[f]]
             ELSE priced

\* One iteration of the item loop of scrape_abc_store_page.
AbcProduct(url, metal, item) ==
    LET buy_price == parse_price(item.price)
        weight == parse_weight_oz(Strip(item.name))
        weight_oz == weight.value
        product == [dealer |-> "ABC Bullion",
                    dealer_id |-> "abc",
                    name |-> Strip(item.name),
                    metal |-> metal,
                    type |-> classify_product_type(Strip(item.name), <<>>),
                    weight_oz |-> Round(weight_oz, 4),
                    buy_price |-> buy_price,
                    sell_back_price |-> None,
                    price_per_oz |-> IF weight_oz[1] > 0
                                     THEN Round(RDiv(buy_price, weight_oz), 2) ELSE None,
                    url |-> url,
                    in_stock |-> TRUE]
    IN  IF item.name = None THEN Returns(None)
        ELSE IF item.price = None THEN Returns(None)
        ELSE IF buy_price = None \/ buy_price[1] = 0 THEN Returns(None)
        ELSE IF weight.raised THEN Raises
        ELSE IF weight_oz = None \/ weight_oz[1] = 0 THEN Returns(None)
        ELSE Returns(WithVolumePricing(product, weight_oz, item.json))

\* scrape_abc_store_page(url, metal)
scrape_abc_store_page(net, url, metal) ==
    LET page == fetch_url(net)
        items == page.value
    IN  IF page.raised THEN Raises
        ELSE IF items = None THEN Returns(<<>>)
        ELSE Collect([i \in 1..Len(items) |-> AbcProduct(url, metal, items[i])])

pages ==
    <<[url |-> "https://www.abcbullion.com.au/store/gold", metal |-> "gold"],
      [url |-> "https://www.abcbullion.com.au/store/silver", metal |-> "silver"],
      [url |-> "https://www.abcbullion.com.au/store/platinum", metal |-> "platinum"]>>

\* scrape_abc(): the products of the three store pages, or the exception of the
\* first page that raised.
scrape_abc(nets) ==
    LET prods == [k \in 1..Len(pages) |->
                    scrape_abc_store_page(nets[k], pages[k].url, pages[k].metal)]
    IN  IF \E k \in 1..Len(pages) : prods[k].raised THEN Raises
        ELSE Returns(Concat([k \in 1..Len(pages) |-> prods[k].value]))

(***************************************************************************)
(* Structured-API adapter: Perth Mint                                      *)
(*                                                                         *)
(* A category response is text json.loads rejects, or the list of the      *)
(* items of result.products.  An absent price is None.                     *)
(***************************************************************************)

BadResponse == [json |-> "bad", items |-> <<>>]

Response(items) == [json |-> "ok", items |-> items]

categories == <<"cast_bars", "coins", "minted_bars">>

\* PerthPrice with the base price looked up before the adjusted price.
PerthPriceBaseFirst(item) ==
    IF item.basePrice # None /\ item.basePrice[1] # 0
    THEN item.basePrice ELSE item.adjustedPrice

\* The buy price of an item: prices.adjustedPrice.price, and
\* prices.basePrice.price when that is absent or zero.
PerthPrice(item) ==
    IF item.adjustedPrice # None /\ item.adjustedPrice[1] # 0
    THEN item.adjustedPrice ELSE item.basePrice

\* Seen with no SKU ever taken as seen.
SeenNever(sku, seen_skus) == FALSE

\* `sku in seen_skus`
Seen(sku, seen_skus) == sku \in seen_skus

\* One iteration of the item loop: the product or None, and the SKUs seen so far.
PerthItem(item, seen_skus) ==
    LET title == IF item.title # <<>> THEN item.title ELSE item.description
        sku == item.skuItemNumber
        buy_price == PerthPrice(item)
        metal == classify_metal(title, item.category)
        weight == parse_weight_oz(title)
        weight_oz == weight.value
        skip(seen) == [raised |-> FALSE, value |-> None, seen_skus |-> seen]
    IN  IF title = <<>> THEN skip(seen_skus)
        ELSE IF item.isArchived \/ item.isNoLongerAvailable THEN skip(seen_skus)
        ELSE IF Seen(sku, seen_skus) THEN skip(seen_skus)
        ELSE IF buy_price = None \/ buy_price[1] = 0 THEN skip(seen_skus \cup {sku})
        ELSE IF item.type # "Bullion" THEN skip(seen_skus \cup {sku})
        ELSE IF weight.raised
             THEN [raised |-> TRUE, value |-> None, seen_skus |-> seen_skus \cup {sku}]
        ELSE IF weight_oz = None \/ weight_oz[1] = 0 THEN skip(seen_skus \cup {sku})
        ELSE [raised |-> FALSE,
              value |-> [dealer |-> "Perth Mint",
                         dealer_id |-> "perth_mint",
                         name |-> Strip(title),
                         metal |-> metal,
                         type |-> classify_product_type(title, item.category),
                         weight_oz |-> Round(weight_oz, 4),
                         buy_price |-> buy_price,
                         sell_back_price |-> None,
                         price_per_oz |-> IF weight_oz[1] > 0
                                          THEN Round(RDiv(buy_price, weight_oz), 2)
                                          ELSE None,
                         url |-> item.link,
                         in_stock |-> item.canAddToCart /\ ~item.isOutOfStock,
                         sku |-> sku],
              seen_skus |-> seen_skus \cup {sku}]

\* The item loop over items[k..]: the products appended to acc.products and the
\* SKUs added to acc.seen_skus, or the exception.
RECURSIVE PerthItems(_, _, _)
PerthItems(items, k, acc) ==
    IF k > Len(items) THEN acc
    ELSE LET got == PerthItem(items[k], acc.seen_skus)
         IN  IF got.raised THEN [acc EXCEPT !.raised = TRUE]
             ELSE PerthItems(items, k + 1,
                     [raised |-> FALSE,
                      products |-> IF got.value = None THEN acc.products
                                   ELSE Append(acc.products, got.value),
                      seen_skus |-> got.seen_skus])

\* The category loop over the responses nets[c..].
RECURSIVE PerthCategories(_, _, _)
PerthCategories(nets, c, acc) ==
    IF c > Len(categories) \/ acc.raised THEN acc
    ELSE LET data_str == fetch_url(nets[c])
         IN  IF data_str.raised THEN [acc EXCEPT !.raised = TRUE]
             ELSE IF data_str.value = None \/ data_str.value.json = "bad"
                  THEN PerthCategories(nets, c + 1, acc)
             ELSE PerthCategories(nets, c + 1, PerthItems(data_str.value.items, 1, acc))

\* scrape_perth_mint(): the products of the three category calls, or an exception.
scrape_perth_mint(nets) ==
    LET done == PerthCategories(nets, 1,
                    [raised |-> FALSE, products |-> <<>>, seen_skus |-> {}])
    IN  IF done.raised THEN Raises ELSE Returns(done.products)

(***************************************************************************)
(* Deal optimizer (generate_site.py)                                       *)
(***************************************************************************)

\* p.get(key, default)
Get(p, key, default) == IF key \in DOMAIN p THEN p[key] ELSE default

\* The truth value Python gives an optional amount: None and 0 are false.
Truthy(amount) == amount # None /\ amount[1] # 0

\* metal_prods without the stock condition.
metal_prods_any_stock(products, metal) ==
    SelectSeq(products,
              LAMBDA p : p.metal = metal /\ Truthy(Get(p, "buy_price", None)))

\* The products of the metal that carry a buy price and are in stock, in
\* catalog order.
metal_prods(products, metal) ==
    SelectSeq(products,
              LAMBDA p : /\ p.metal = metal
                         /\ Truthy(Get(p, "buy_price", None))
                         /\ Get(p, "in_stock", TRUE))

\* qty_rounded with int() in the place of round(): the quotient truncated.
qty_truncated(target_oz, w) == (target_oz[1] * w[2]) \div (target_oz[2] * w[1])

\* round(target_oz / w)
qty_rounded(target_oz, w) == RoundHalfEven(RDiv(target_oz, w))

\* TooFar with a tolerance of 0.1 in the place of 0.01.
TooFarTenth(actual_oz, target_oz) ==
    RLt(Rat(1, 10), RDiv(RAbs(RSub(actual_oz, target_oz)), target_oz))

\* TooFar with a tolerance of 0.001 in the place of 0.01.
TooFarThousandth(actual_oz, target_oz) ==
    RLt(Rat(1, 1000), RDiv(RAbs(RSub(actual_oz, target_oz)), target_oz))

\* abs(actual_oz - target_oz) / target_oz > 0.01
TooFar(actual_oz, target_oz) ==
    RLt(Rat(1, 100), RDiv(RAbs(RSub(actual_oz, target_oz)), target_oz))

\* cost_per_oz over the ounces rounded to a whole number.
cost_per_whole_oz(total_cost, actual_oz) == RDiv(total_cost, Round(actual_oz, 0))

\* total_cost / actual_oz
cost_per_oz(total_cost, actual_oz) == RDiv(total_cost, actual_oz)

\* One iteration of the product loop: the deal appended, or None.  The labels
\* and the description, which only format the weight, are left out.
Deal(p, target_oz) ==
    LET w == p.weight_oz
        price == p.buy_price
        qty == qty_rounded(target_oz, w)
        actual_oz == RMul(RInt(qty), w)
        total_cost == RMul(RInt(qty), price)
    IN  IF w[1] <= 0 THEN None
        ELSE IF qty < 1 THEN None
        ELSE IF TooFar(actual_oz, target_oz) THEN None
        ELSE [name |-> p.name,
              dealer |-> p.dealer,
              dealer_id |-> Get(p, "dealer_id", ""),
              type |-> p.type,
              qty |-> qty,
              unit_weight |-> w,
              unit_price |-> price,
              total_cost |-> Round(total_cost, 2),
              actual_oz |-> Round(actual_oz, 4),
              cost_per_oz |-> Round(cost_per_oz(total_cost, actual_oz), 2),
              sell_back |-> Get(p, "sell_back_price", None),
              url |-> Get(p, "url", "#"),
              in_stock |-> Get(p, "in_stock", TRUE)]

\* SortDeals with the sort left out: the deals in the order of the catalog.
SortDealsOmitted(unsorted) == unsorted

\* deals.sort(key=lambda d: d['total_cost'])
SortDeals(unsorted) ==
    LET ranked == StableSort([i \in 1..Len(unsorted) |->
                      [key |-> unsorted[i].total_cost, item |-> unsorted[i]]])
    IN  [i \in 1..Len(ranked) |-> ranked[i].item]

\* find_best_deals(products, metal, target_oz)
find_best_deals(products, metal, target_oz) ==
    LET cands == metal_prods(products, metal)
    IN  SortDeals(Present([i \in 1..Len(cands) |-> Deal(cands[i], target_oz)]))

\* DealRaises with the tolerance test made before the test of the quantity.
DealRaisesUnguarded(p, target_oz) ==
    p.weight_oz[1] > 0 /\ target_oz[1] = 0

\* One iteration of the product loop raises ZeroDivisionError: a division is
\* reached with a divisor of zero (target_oz / w, / target_oz, / actual_oz).
DealRaises(p, target_oz) ==
    LET w == p.weight_oz
        qty == qty_rounded(target_oz, w)
        actual_oz == RMul(RInt(qty), w)
    IN  IF w[1] <= 0 THEN FALSE
        ELSE IF qty < 1 THEN FALSE
        ELSE IF target_oz[1] = 0 THEN TRUE
        ELSE IF TooFar(actual_oz, target_oz) THEN FALSE
        ELSE actual_oz[1] = 0

\* The call find_best_deals(products, metal, target_oz): the list it returns,
\* or the exception of the first iteration that raises.
find_best_deals_call(products, metal, target_oz) ==
    LET cands == metal_prods(products, metal)
    IN  IF \E i \in 1..Len(cands) : DealRaises(cands[i], target_oz) THEN Raises
        ELSE Returns(find_best_deals(products, metal, target_oz))

(***************************************************************************)
(* Catalog builder: scrape_all() and main() of scrape_prices.py            *)
(***************************************************************************)

scrapers == <<"scrape_ainslie", "scrape_abc", "scrape_perth_mint">>

DealerOf(scraper) ==
    CASE scraper = "scrape_ainslie" -> "Ainslie Bullion"
      [] scraper = "scrape_abc" -> "ABC Bullion"
      [] scraper = "scrape_perth_mint" -> "Perth Mint"

NotCalled == [called |-> FALSE, raised |-> FALSE, value |-> <<>>]

Called(outcome) == [called |-> TRUE, raised |-> outcome.raised, value |-> outcome.value]

\* TryExtend with the products collected so far dropped when a scraper raises.
TryExtendOrReset(products_so_far, outcome) ==
    IF outcome.raised THEN <<>> ELSE products_so_far \o outcome.value

\* The try block of scrape_all: the products are appended unless the scraper
\* raised; the exception is logged and the loop goes on.
TryExtend(products_so_far, outcome) ==
    IF outcome.raised THEN products_so_far ELSE products_so_far \o outcome.value

\* Metadata with every dealer of the run listed, contributing or not.
MetadataEveryDealer(products, now) ==
    [scraped_at |-> now,
     total_products |-> Len(products),
     dealers |-> {DealerOf(scrapers[i]) : i \in 1..Len(scrapers)},
     products |-> products]

\* Metadata with the time of the run written into every product.
MetadataStamped(products, now) ==
    [scraped_at |-> now,
     total_products |-> Len(products),
     dealers |-> {products[i].dealer : i \in 1..Len(products)},
     products |-> [i \in 1..Len(products) |->
                     [f \in DOMAIN products[i] \cup {"scraped_at"} |->
                         IF f = "scraped_at" THEN now ELSE products[i][f]]]]

\* The result dictionary of scrape_all.
Metadata(products, now) ==
    [scraped_at |-> now,
     total_products |-> Len(products),
     dealers |-> {products[i].dealer : i \in 1..Len(products)},
     products |-> products]

(***************************************************************************)
(* Inputs                                                                  *)
(***************************************************************************)

MaxRows == 3

MaxBlocks == 1

MaxItems == 2

MaxCatalog == 3

SeqsUpTo(S, n) == UNION {[1..k -> S] : k \in 0..n}

\* Product titles: an ounce weight, a gram weight, a fraction over zero, a
\* weight below half of 0.0001 oz, and a name without a weight.
T_1oz == <<"1", "O", "z">>

T_1g == <<"1", "g">>

T_1_0oz == <<"1", "/", "0", "o", "z">>

T_tiny == <<"0", ".", "0", "0", "0", "0", "1", "o", "z">>

T_bar == <<"b", "a", "r">>

Titles == {T_1oz, T_1g, T_1_0oz, T_tiny, T_bar}

\* Price texts.
P_2900 == <<"2", "9", "0", "0">>

P_3000 == <<"3", "0", "0", "0">>

P_3000c == <<"3", ",", "0", "0", "0">>

P_150 == <<"1", "5", "0">>

P_155 == <<"1", "5", "5">>

P_145 == <<"1", "4", "5">>

P_bad == <<"1", ".", "2", ".", "3">>

\* The moments datetime.now() may give.
Times == {"t1", "t2"}

AinslieRows ==
    {Row(n, P_2900, P_3000) : n \in Titles} \cup {Row(T_1oz, P_2900, P_bad)}

AinslieElems == {Header(AinslieLabels[k]) : k \in 1..Len(AinslieLabels)} \cup AinslieRows

Outcomes(bodies) == {FetchFailed, FetchRaised} \cup {FetchOk(b) : b \in bodies}

\* What the request of scrape_ainslie may meet.
AinsliePages == Outcomes(SeqsUpTo(AinslieElems, MaxRows))

Jsons ==
    {NoJson, BadJson,
     TierTable(<<Tier(<<"1">>, P_155, RInt(1), RInt(9))>>),
     TierTable(<<Tier(<<"1", "0">>, P_145, RInt(10), None),
                 Tier(<<"1">>, P_155, RInt(1), RInt(9))>>),
     TierTable(<<Tier(<<"1">>, P_bad, RInt(1), RInt(9)),
                 Tier(<<"1", "0">>, P_145, RInt(10), None)>>)}

AbcBlocks ==
    {Block(n, P_3000c, NoItemId) : n \in Titles}
    \cup {Block(T_1g, P_150, j) : j \in Jsons}
    \cup {Block(None, P_3000c, NoItemId), Block(T_1oz, None, NoItemId),
          Block(T_1oz, P_bad, NoItemId)}

\* The ways to spread at most n entries over the three requests; a request that
\* fails takes one.
Splits(n) == {k \in [1..3 -> 0..n] : k[1] + k[2] + k[3] <= n}

\* What a request may meet: a page of k entries of the pool, or a failure.
Answers(pool, k) ==
    {FetchOk(b) : b \in [1..k -> pool]}
    \cup (IF k = 1 THEN {FetchFailed, FetchRaised} ELSE {})

BaseItem ==
    [title |-> T_1oz, description |-> <<>>, isArchived |-> FALSE,
     isNoLongerAvailable |-> FALSE, skuItemNumber |-> "A",
     adjustedPrice |-> None, basePrice |-> RInt(3000), type |-> "Bullion",
     category |-> <<"c", "o", "i", "n", "s">>, link |-> "https://www.perthmint.com/shop/a",
     canAddToCart |-> TRUE, isOutOfStock |-> FALSE]

PerthItemPool ==
    {BaseItem,
     [BaseItem EXCEPT !.adjustedPrice = RInt(2900)],
     [BaseItem EXCEPT !.basePrice = None],
     [BaseItem EXCEPT !.isArchived = TRUE],
     [BaseItem EXCEPT !.type = "Collectable"],
     [BaseItem EXCEPT !.isOutOfStock = TRUE],
     [BaseItem EXCEPT !.title = T_1_0oz],
     [BaseItem EXCEPT !.title = T_tiny, !.skuItemNumber = "B"],
     [BaseItem EXCEPT !.title = T_1g, !.skuItemNumber = "B", !.basePrice = RInt(150),
                      !.category = <<"s", "i", "l", "v", "e", "r">>]}

\* What a category request may meet: a response of k items, or a failure.
PerthAnswers(k) ==
    {FetchOk(Response(items)) : items \in [1..k -> PerthItemPool]}
    \cup (IF k = 1 THEN {FetchFailed, FetchRaised, FetchOk(BadResponse)} ELSE {})

\* The runs of scrape_all meet one entry per dealer at most.
AinslieSamples ==
    {FetchFailed, FetchRaised}
    \cup {FetchOk(<<Header("Gold Products"), r>>) : r \in AinslieRows}

AbcSamples ==
    {[i \in 1..3 |-> FetchFailed], [i \in 1..3 |-> IF i = 2 THEN FetchRaised ELSE FetchOk(<<>>)]}
    \cup {[i \in 1..3 |-> IF i = at THEN FetchOk(<<b>>) ELSE FetchOk(<<>>)] :
            at \in 1..3, b \in AbcBlocks}

PerthSamples ==
    {[i \in 1..3 |-> FetchFailed], [i \in 1..3 |-> IF i = 2 THEN FetchRaised ELSE FetchOk(Response(<<>>))]}
    \cup {[i \in 1..3 |-> IF i = at THEN FetchOk(Response(<<it>>)) ELSE FetchOk(Response(<<>>))] :
            at \in 1..3, it \in PerthItemPool}

\* Catalog entries for the optimizer: offers of the queried metal in stock, and
\* one offer failing each condition of the filter.
Offer(metal, weight_oz, buy_price, in_stock) ==
    [metal |-> metal, weight_oz |-> weight_oz, buy_price |-> buy_price, in_stock |-> in_stock]

Offers ==
    {Offer("gold", w, RInt(1550), TRUE) :
        w \in {Rat(2, 125), Rat(3, 10), Rat(1, 2), Rat(201, 400)}}
    \cup {Offer("gold", RInt(1), RInt(b), TRUE) : b \in {3000, 3100}}
    \cup {Offer("silver", RInt(1), RInt(3000), TRUE),
          Offer("gold", RInt(1), RInt(3000), FALSE),
          Offer("gold", RInt(1), None, TRUE),
          Offer("gold", RInt(0), RInt(3000), TRUE)}

ProductNames == <<<<"p", "1">>, <<"p", "2">>, <<"p", "3">>, <<"p", "4">>, <<"p", "5">>>>

\* The product record of the offer at position i of a catalog.
Listed(offer, i) ==
    [dealer |-> "ABC Bullion",
     dealer_id |-> "abc",
     name |-> ProductNames[i],
     metal |-> offer.metal,
     type |-> "bar",
     weight_oz |-> offer.weight_oz,
     buy_price |-> offer.buy_price,
     sell_back_price |-> None,
     price_per_oz |-> IF offer.buy_price # None /\ offer.weight_oz[1] > 0
                      THEN Round(RDiv(offer.buy_price, offer.weight_oz), 2) ELSE None,
     url |-> "https://www.abcbullion.com.au/store/gold",
     in_stock |-> offer.in_stock]

Catalogs ==
    {[i \in 1..Len(offers) |-> Listed(offers[i], i)] : offers \in SeqsUpTo(Offers, MaxCatalog)}

QueryMetals == {"gold", "silver"}

QueryTargets == {RInt(1), Rat(3, 2)}

\* Targets of the queries over a built catalog: none, a negative one, an ounce.
SiteTargets == {RInt(0), RInt(-1), RInt(1)}

\* The longest name, in words, given to the normalizer.
MaxWords == 2

\* The words joined by single spaces.
RECURSIVE Join(_)
Join(words) ==
    IF words = <<>> THEN <<>>
    ELSE IF Len(words) = 1 THEN words[1]
    ELSE words[1] \o <<" ">> \o Join(Tail(words))

\* Words of product names that carry a weight, one or more for every unit
\* pattern, and words that carry none.
W_half == <<"1", "/", "2", "o", "z">>

W_2oz == <<"2", " ", "O", "z">>

W_1kg == <<"1", "K", "g">>

W_100g == <<"1", "0", "0", "g">>

W_gram == <<"2", ".", "5", " ", "g", "r", "a", "m">>

W_tael == <<"1", " ", "t", "a", "e", "l">>

W_gold == <<"9", " ", "G", "o", "l", "d">>

W_maplegram == <<"m", "a", "p", "l", "e", "g", "r", "a", "m", "2", "5">>

W_over_zero == <<"1", "/", "0", "o", "z">>

WeightWords == {W_half, W_2oz, W_1kg, W_100g, W_gram, W_tael, W_gold, W_maplegram, W_over_zero, T_bar}

WeightNames == SeqsUpTo(WeightWords, MaxWords)

\* Words of product names that decide the product type, and a word that
\* decides nothing.
Y_pool == <<"p", "o", "o", "l">>

Y_unallocated == <<"u", "n", "a", "l", "l", "o", "c", "a", "t", "e", "d">>

Y_coin == <<"c", "o", "i", "n">>

Y_kangaroo == <<"K", "a", "n", "g", "a", "r", "o", "o">>

Y_minted == <<"m", "i", "n", "t", "e", "d">>

Y_tablet == <<"t", "a", "b", "l", "e", "t">>

Y_round == <<"r", "o", "u", "n", "d">>

Y_bar == <<"B", "a", "r">>

Y_ingot == <<"i", "n", "g", "o", "t">>

Y_gold == <<"G", "o", "l", "d">>

TypeWords == {Y_pool, Y_unallocated, Y_coin, Y_kangaroo, Y_minted, Y_tablet, Y_round, Y_bar, Y_ingot, Y_gold}

TypeNames == SeqsUpTo(TypeWords, MaxWords)

\* Category hints: none, and the hints the rules look for.
H_coins == <<"c", "o", "i", "n", "s">>

H_cast == <<"c", "a", "s", "t", " ", "b", "a", "r", "s">>

H_minted == <<"m", "i", "n", "t", "e", "d", " ", "b", "a", "r", "s">>

Hints == {<<>>, H_coins, H_cast, H_minted}

\* Words of product names and sections that name a metal, and a word that
\* names none.
M_platinum == <<"p", "l", "a", "t", "i", "n", "u", "m">>

M_silver == <<"s", "i", "l", "v", "e", "r">>

M_palladium == <<"p", "a", "l", "l", "a", "d", "i", "u", "m">>

M_gold == <<"G", "o", "l", "d">>

MetalWords == {M_platinum, M_silver, M_palladium, M_gold, T_bar}

MetalNames == SeqsUpTo(MetalWords, MaxWords)

Sections == {<<>>, M_silver, M_platinum, M_gold}

\* Prices as the callers of parse_price may hold them: texts of the pages,
\* well formed or not, and the numbers of a tier table.
P_dollars == <<"$", "3", ",", "0", "0", "0", ".", "5", "0">>

P_padded == <<" ", "1", "2", " ">>

P_words == <<"c", "a", "l", "l">>

PriceTexts == {<<>>, P_3000, P_3000c, P_dollars, P_padded, P_bad, P_words}

PriceNumbers == {RInt(0), RInt(3000), Rat(30005, 10)}

PriceInputs == {Text(t) : t \in PriceTexts} \cup {Number(x) : x \in PriceNumbers}

\* Items of the product API, each with a link of its own: priced by the base
\* price and by the adjusted price, and one for each reason to skip an item;
\* items that carry no SKU.
I_base == [BaseItem EXCEPT !.link = "https://www.perthmint.com/shop/base"]

I_adjusted == [BaseItem EXCEPT !.adjustedPrice = RInt(2900), !.link = "https://www.perthmint.com/shop/adjusted"]

I_no_price == [BaseItem EXCEPT !.basePrice = None, !.link = "https://www.perthmint.com/shop/no-price"]

I_archived == [BaseItem EXCEPT !.isArchived = TRUE, !.link = "https://www.perthmint.com/shop/archived"]

I_gone == [BaseItem EXCEPT !.isNoLongerAvailable = TRUE, !.link = "https://www.perthmint.com/shop/gone"]

I_collectable == [BaseItem EXCEPT !.type = "Collectable", !.link = "https://www.perthmint.com/shop/collectable"]

I_no_weight == [BaseItem EXCEPT !.title = T_bar, !.link = "https://www.perthmint.com/shop/no-weight"]

I_out_of_stock == [BaseItem EXCEPT !.isOutOfStock = TRUE, !.link = "https://www.perthmint.com/shop/out-of-stock"]

I_no_cart == [BaseItem EXCEPT !.canAddToCart = FALSE, !.link = "https://www.perthmint.com/shop/no-cart"]

I_untitled == [BaseItem EXCEPT !.title = <<>>, !.link = "https://www.perthmint.com/shop/untitled"]

I_no_sku == [BaseItem EXCEPT !.skuItemNumber = "", !.link = "https://www.perthmint.com/shop/no-sku"]

I_no_sku_no_price == [BaseItem EXCEPT !.skuItemNumber = "", !.basePrice = None, !.link = "https://www.perthmint.com/shop/no-sku-no-price"]

ItemPool ==
    {I_base, I_adjusted, I_no_price, I_archived, I_gone, I_collectable, I_no_weight,
     I_out_of_stock, I_no_cart, I_untitled, I_no_sku, I_no_sku_no_price}

\* The answers to the three category requests: the first `cut` items, the
\* items after them, and none.
CutInTwo(items, cut) ==
    <<FetchOk(Response(SubSeq(items, 1, cut))),
      FetchOk(Response(SubSeq(items, cut + 1, Len(items)))),
      FetchOk(Response(<<>>))>>

(***************************************************************************)
(* scrape_all(): the three scrapers in turn, then the result               *)
(***************************************************************************)

\* One turn of the scraper loop: the call, and the try block around it.
Call(scraper, nets, outcome) ==
    /\ all_products' = TryExtend(all_products, outcome)
    /\ returned' = [returned EXCEPT ![scraper] = Called(outcome)]
    /\ fetched' = [fetched EXCEPT ![scraper] = nets]
    /\ UNCHANGED <<result, catalog, query, deals>>

\* The turn of scrape_ainslie, its request meeting net.
ScrapeAinslie(net, outcome) ==
    /\ pc = "scrape_ainslie"
    /\ pc' = "scrape_abc"
    /\ Call("scrape_ainslie", <<net>>, outcome)

\* The turn of scrape_abc, its requests meeting nets.
ScrapeAbc(nets, outcome) ==
    /\ pc = "scrape_abc"
    /\ pc' = "scrape_perth_mint"
    /\ Call("scrape_abc", nets, outcome)

\* The turn of scrape_perth_mint, its requests meeting nets.
ScrapePerthMint(nets, outcome) ==
    /\ pc = "scrape_perth_mint"
    /\ pc' = "result"
    /\ Call("scrape_perth_mint", nets, outcome)

\* The result dictionary is built and returned.
BuildResult(now) ==
    /\ pc = "result"
    /\ result' = Metadata(all_products, now)
    /\ pc' = "done"
    /\ UNCHANGED <<all_products, returned, fetched, catalog, query, deals>>

Init ==
    /\ pc = "scrape_ainslie"
    /\ all_products = <<>>
    /\ returned = [s \in {scrapers[k] : k \in 1..Len(scrapers)} |-> NotCalled]
    /\ fetched = [s \in {scrapers[k] : k \in 1..Len(scrapers)} |-> None]
    /\ result = None
    /\ catalog = <<>>
    /\ query = None
    /\ deals = <<>>

Next ==
    \/ \E net \in AinslieSamples : ScrapeAinslie(net, scrape_ainslie(net))
    \/ \E nets \in AbcSamples : ScrapeAbc(nets, scrape_abc(nets))
    \/ \E nets \in PerthSamples : ScrapePerthMint(nets, scrape_perth_mint(nets))
    \/ \E now \in Times : BuildResult(now)

Spec == Init /\ [][Next]_vars

(***************************************************************************)
(* main() with --dealer: scraper_map[args.dealer]() alone, no try block    *)
(***************************************************************************)

Run(scraper, nets, outcome) ==
    /\ returned' = [returned EXCEPT ![scraper] = Called(outcome)]
    /\ fetched' = [fetched EXCEPT ![scraper] = nets]
    /\ pc' = IF outcome.raised THEN "crashed" ELSE "returned"
    /\ UNCHANGED <<all_products, result, catalog, query, deals>>

MainAinslie(net, outcome) ==
    /\ pc = "main"
    /\ Run("scrape_ainslie", <<net>>, outcome)

MainAbc(nets, outcome) ==
    /\ pc = "main"
    /\ Run("scrape_abc", nets, outcome)

MainPerthMint(nets, outcome) ==
    /\ pc = "main"
    /\ Run("scrape_perth_mint", nets, outcome)

InitDealer ==
    /\ pc = "main"
    /\ all_products = <<>>
    /\ returned = [s \in {scrapers[k] : k \in 1..Len(scrapers)} |-> NotCalled]
    /\ fetched = [s \in {scrapers[k] : k \in 1..Len(scrapers)} |-> None]
    /\ result = None
    /\ catalog = <<>>
    /\ query = None
    /\ deals = <<>>

NextDealer ==
    \/ \E net \in AinsliePages : MainAinslie(net, scrape_ainslie(net))
    \/ \E k \in Splits(MaxBlocks) :
          \E a \in Answers(AbcBlocks, k[1]), b \in Answers(AbcBlocks, k[2]),
             c \in Answers(AbcBlocks, k[3]) :
              MainAbc(<<a, b, c>>, scrape_abc(<<a, b, c>>))
    \/ \E k \in Splits(MaxItems) :
          \E a \in PerthAnswers(k[1]), b \in PerthAnswers(k[2]), c \in PerthAnswers(k[3]) :
              MainPerthMint(<<a, b, c>>, scrape_perth_mint(<<a, b, c>>))

SpecDealer == InitDealer /\ [][NextDealer]_vars

\* main() with --dealer perth_mint, on the items of ItemPool.
NextPerth ==
    \E items \in SeqsUpTo(ItemPool, MaxItems) :
        \E cut \in 0..Len(items) :
            MainPerthMint(CutInTwo(items, cut), scrape_perth_mint(CutInTwo(items, cut)))

SpecPerth == InitDealer /\ [][NextPerth]_vars

(***************************************************************************)
(* Deal queries over a catalog snapshot                                    *)
(***************************************************************************)

\* A query: the ranked deals for the metal and the target weight.
FindBestDeals(metal, target_oz, ranked) ==
    /\ pc = "query"
    /\ query' = [metal |-> metal, target_oz |-> target_oz]
    /\ deals' = ranked
    /\ UNCHANGED <<pc, all_products, returned, fetched, result, catalog>>

InitDeals ==
    /\ pc = "query"
    /\ all_products = <<>>
    /\ returned = [s \in {scrapers[k] : k \in 1..Len(scrapers)} |-> NotCalled]
    /\ fetched = [s \in {scrapers[k] : k \in 1..Len(scrapers)} |-> None]
    /\ result = None
    /\ catalog \in Catalogs
    /\ query = None
    /\ deals = <<>>

NextDeals ==
    \E metal \in QueryMetals, target_oz \in QueryTargets :
        FindBestDeals(metal, target_oz, find_best_deals(catalog, metal, target_oz))

SpecDeals == InitDeals /\ [][NextDeals]_vars

(***************************************************************************)
(* The catalog build, then a deal query over the catalog it returned.      *)
(***************************************************************************)

\* The query over the products of the result: answered, or aborted by the
\* exception of find_best_deals.
QueryResult(metal, target_oz, outcome) ==
    /\ pc = "done"
    /\ query' = [metal |-> metal, target_oz |-> target_oz]
    /\ deals' = outcome.value
    /\ pc' = IF outcome.raised THEN "aborted" ELSE "answered"
    /\ UNCHANGED <<all_products, returned, fetched, result, catalog>>

NextSite ==
    \/ Next
    \/ \E metal \in QueryMetals, target_oz \in SiteTargets :
          QueryResult(metal, target_oz,
                      find_best_deals_call(result.products, metal, target_oz))

SpecSite == Init /\ [][NextSite]_vars

(***************************************************************************)
(* scrape_all() when a request may stay unanswered: urlopen's timeout      *)
(* bounds each socket operation, not the response, and scrape_all has one  *)
(* thread and no timer of its own.                                         *)
(***************************************************************************)

\* A response that keeps arriving, every piece within the socket timeout,
\* and never ends: resp.read() does not return.
FetchHangs == [status |-> "hangs", body |-> None]

\* The requests before the k-th as they were met, the others not answered.
Before(nets, k) == [i \in 1..Len(nets) |-> IF i < k THEN nets[i] ELSE FetchFailed]

\* The scraper makes a request that hangs: the requests before it did not
\* end the scraper by an exception.
WaitsAinslie(net) == net = FetchHangs

WaitsAbc(nets) ==
    \E k \in 1..Len(nets) : nets[k] = FetchHangs /\ ~scrape_abc(Before(nets, k)).raised

WaitsPerthMint(nets) ==
    \E k \in 1..Len(nets) : nets[k] = FetchHangs /\ ~scrape_perth_mint(Before(nets, k)).raised

\* The loop stays inside the call of the scraper.
Wait(scraper, nets) ==
    /\ pc' = "waiting"
    /\ fetched' = [fetched EXCEPT ![scraper] = nets]
    /\ UNCHANGED <<all_products, returned, result, catalog, query, deals>>

AwaitAinslie(net, waits, outcome) ==
    /\ pc = "scrape_ainslie"
    /\ IF waits THEN Wait("scrape_ainslie", <<net>>) ELSE ScrapeAinslie(net, outcome)

AwaitAbc(nets, waits, outcome) ==
    /\ pc = "scrape_abc"
    /\ IF waits THEN Wait("scrape_abc", nets) ELSE ScrapeAbc(nets, outcome)

AwaitPerthMint(nets, waits, outcome) ==
    /\ pc = "scrape_perth_mint"
    /\ IF waits THEN Wait("scrape_perth_mint", nets) ELSE ScrapePerthMint(nets, outcome)

\* The samples of the runs, and requests that hang: the first one, one after
\* a page of products, one after a request that raised.
HangSamples(page, empty) ==
    {[i \in 1..3 |-> IF i = 1 THEN FetchHangs ELSE empty],
     [i \in 1..3 |-> IF i = 1 THEN page ELSE IF i = 2 THEN FetchHangs ELSE empty],
     [i \in 1..3 |-> IF i = 1 THEN FetchRaised ELSE IF i = 2 THEN FetchHangs ELSE empty]}

WaitAinslieSamples == AinslieSamples \cup {FetchHangs}

WaitAbcSamples ==
    AbcSamples \cup HangSamples(FetchOk(<<Block(T_1oz, P_3000c, NoItemId)>>), FetchOk(<<>>))

WaitPerthSamples ==
    PerthSamples \cup HangSamples(FetchOk(Response(<<BaseItem>>)), FetchOk(Response(<<>>)))

NextWait ==
    \/ \E net \in WaitAinslieSamples :
          AwaitAinslie(net, WaitsAinslie(net), scrape_ainslie(net))
    \/ \E nets \in WaitAbcSamples :
          AwaitAbc(nets, WaitsAbc(nets), scrape_abc(nets))
    \/ \E nets \in WaitPerthSamples :
          AwaitPerthMint(nets, WaitsPerthMint(nets), scrape_perth_mint(nets))
    \/ \E now \in Times : BuildResult(now)

SpecWait == Init /\ [][NextWait]_vars

(***************************************************************************)
(* Two calls of find_best_deals over one catalog, their statements         *)
(* interleaved.  Each variable but catalog holds one value per call:       *)
(* query the arguments, fetched the list metal_prods, all_products the     *)
(* position of the loop in it, deals the list deals, returned the value    *)
(* returned.                                                               *)
(***************************************************************************)

Callers == {1, 2}

\* deals.append(...) on a list shared by the calls, as a default argument
\* or a global would be.
AppendShared(lists, caller, deal) == [c \in DOMAIN lists |-> Append(lists[c], deal)]

\* deals.append(...): deals is a local of the call.
AppendLocal(lists, caller, deal) == [lists EXCEPT ![caller] = Append(@, deal)]

\* The call begins: the arguments are bound, metal_prods is filtered from
\* the catalog, deals is empty.
BeginDeals(caller, metal, target_oz) ==
    /\ pc[caller] = "idle"
    /\ pc' = [pc EXCEPT ![caller] = "loop"]
    /\ query' = [query EXCEPT ![caller] = [metal |-> metal, target_oz |-> target_oz]]
    /\ fetched' = [fetched EXCEPT ![caller] = metal_prods(catalog, metal)]
    /\ all_products' = [all_products EXCEPT ![caller] = 1]
    /\ deals' = [deals EXCEPT ![caller] = <<>>]
    /\ UNCHANGED <<returned, result, catalog>>

\* One iteration of the loop over metal_prods.
LoopDeals(caller) ==
    /\ pc[caller] = "loop"
    /\ all_products[caller] <= Len(fetched[caller])
    /\ LET deal == Deal(fetched[caller][all_products[caller]], query[caller].target_oz)
       IN  deals' = IF deal = None THEN deals ELSE AppendLocal(deals, caller, deal)
    /\ all_products' = [all_products EXCEPT ![caller] = @ + 1]
    /\ UNCHANGED <<pc, query, fetched, returned, result, catalog>>

\* The loop is over: deals is sorted and returned.
ReturnDeals(caller) ==
    /\ pc[caller] = "loop"
    /\ all_products[caller] > Len(fetched[caller])
    /\ deals' = [deals EXCEPT ![caller] = SortDeals(@)]
    /\ returned' = [returned EXCEPT ![caller] = SortDeals(deals[caller])]
    /\ pc' = [pc EXCEPT ![caller] = "returned"]
    /\ UNCHANGED <<query, fetched, all_products, result, catalog>>

\* The catalogs of the interleaved calls.
PairOffers ==
    {Offer("gold", RInt(1), RInt(3000), TRUE),
     Offer("gold", Rat(1, 2), RInt(1550), TRUE),
     Offer("silver", RInt(1), RInt(3000), TRUE)}

PairCatalogs ==
    {[i \in 1..Len(offers) |-> Listed(offers[i], i)] : offers \in SeqsUpTo(PairOffers, MaxCatalog)}

InitPair ==
    /\ pc = [c \in Callers |-> "idle"]
    /\ query = [c \in Callers |-> None]
    /\ fetched = [c \in Callers |-> <<>>]
    /\ all_products = [c \in Callers |-> 1]
    /\ deals = [c \in Callers |-> <<>>]
    /\ returned = [c \in Callers |-> None]
    /\ result = None
    /\ catalog \in PairCatalogs

NextPair ==
    \/ \E caller \in Callers, metal \in QueryMetals, target_oz \in QueryTargets :
          BeginDeals(caller, metal, target_oz)
    \/ \E caller \in Callers : LoopDeals(caller)
    \/ \E caller \in Callers : ReturnDeals(caller)

SpecPair == InitPair /\ [][NextPair]_vars

(***************************************************************************)
(* scrape_all() run a second time, its requests meeting what the requests  *)
(* of the first run met.  deals holds all_products of the second run and   *)
(* catalog its result.                                                     *)
(***************************************************************************)

\* One turn of the scraper loop of the second run.
CallAgain(scraper, nets, outcome) ==
    /\ fetched[scraper] = nets
    /\ deals' = TryExtend(deals, outcome)
    /\ UNCHANGED <<all_products, returned, fetched, result, catalog, query>>

ScrapeAinslieAgain(net, outcome) ==
    /\ pc = "done"
    /\ pc' = "scrape_abc_again"
    /\ CallAgain("scrape_ainslie", <<net>>, outcome)

ScrapeAbcAgain(nets, outcome) ==
    /\ pc = "scrape_abc_again"
    /\ pc' = "scrape_perth_mint_again"
    /\ CallAgain("scrape_abc", nets, outcome)

ScrapePerthMintAgain(nets, outcome) ==
    /\ pc = "scrape_perth_mint_again"
    /\ pc' = "result_again"
    /\ CallAgain("scrape_perth_mint", nets, outcome)

\* The result dictionary of the second run.
BuildResultAgain(now) ==
    /\ pc = "result_again"
    /\ catalog' = Metadata(deals, now)
    /\ pc' = "done_again"
    /\ UNCHANGED <<all_products, returned, fetched, result, query, deals>>

NextTwice ==
    \/ Next
    \/ \E net \in AinslieSamples : ScrapeAinslieAgain(net, scrape_ainslie(net))
    \/ \E nets \in AbcSamples : ScrapeAbcAgain(nets, scrape_abc(nets))
    \/ \E nets \in PerthSamples : ScrapePerthMintAgain(nets, scrape_perth_mint(nets))
    \/ \E now \in Times : BuildResultAgain(now)

SpecTwice == Init /\ [][NextTwice]_vars

(***************************************************************************)
(* The normalizer's functions, each called once on an input.  query holds  *)
(* the arguments and result the outcome of the call.                       *)
(***************************************************************************)

\* A function of the normalizer is called with args and ends with outcome.
Apply(function, args, outcome) ==
    /\ pc' = function
    /\ query' = args
    /\ result' = outcome
    /\ UNCHANGED <<all_products, returned, fetched, catalog, deals>>

ParseWeightOz(words, outcome) ==
    /\ pc = "input"
    /\ Apply("parse_weight_oz", [words |-> words, name |-> Join(words)], outcome)

ClassifyProductType(words, category_hint, type) ==
    /\ pc = "input"
    /\ Apply("classify_product_type",
             [words |-> words, name |-> Join(words), category_hint |-> category_hint],
             Returns(type))

ClassifyMetal(words, section, metal) ==
    /\ pc = "input"
    /\ Apply("classify_metal",
             [words |-> words, name |-> Join(words), section |-> section],
             Returns(metal))

ParsePrice(s, outcome) ==
    /\ pc = "input"
    /\ Apply("parse_price", s, outcome)

InitText ==
    /\ pc = "input"
    /\ all_products = <<>>
    /\ returned = [s \in {scrapers[k] : k \in 1..Len(scrapers)} |-> NotCalled]
    /\ fetched = [s \in {scrapers[k] : k \in 1..Len(scrapers)} |-> None]
    /\ result = None
    /\ catalog = <<>>
    /\ query = None
    /\ deals = <<>>

NextText ==
    \/ \E words \in WeightNames : ParseWeightOz(words, parse_weight_oz(Join(words)))
    \/ \E words \in TypeNames, category_hint \in Hints :
          ClassifyProductType(words, category_hint,
                              classify_product_type(Join(words), category_hint))
    \/ \E words \in MetalNames, section \in Sections :
          ClassifyMetal(words, section, classify_metal(Join(words), section))
    \/ \E s \in PriceInputs : ParsePrice(s, parse_price_call(s))

SpecText == InitText /\ [][NextText]_vars

(***************************************************************************)
(* Properties of the deal optimizer, checked under SpecDeals               *)
(***************************************************************************)

\* The position in the catalog of the product a deal names.
CatalogIndex(d) == CHOOSE i \in 1..Len(catalog) : catalog[i].name = d.name

ProductOf(d) == catalog[CatalogIndex(d)]

\* qty units of the product come within 1% of the target.
WithinOnePercent(qty, p, target_oz) ==
    RLe(RMul(RInt(100), RAbs(RSub(RMul(RInt(qty), p.weight_oz), target_oz))), target_oz)

\* C1: every option returned for a target above zero is within 1% of the
\* target: |qty * unit weight - target_oz| / target_oz <= 0.01.
C1_OptionsWithinOnePercent ==
    \A k \in 1..Len(deals) :
        query.target_oz[1] > 0 =>
            WithinOnePercent(deals[k].qty, ProductOf(deals[k]), query.target_oz)

\* An option of several units whose weight is not the target exactly.
C1_Witness ==
    \E k \in 1..Len(deals) :
        /\ deals[k].qty >= 2
        /\ RMul(RInt(deals[k].qty), ProductOf(deals[k]).weight_oz) # query.target_oz

\* C2: every option refers to a product of the queried metal, with a buy price,
\* in stock and of a weight above zero; no other product yields an option.
C2_OptionsPassTheFilter ==
    \A k \in 1..Len(deals) :
        LET p == ProductOf(deals[k])
        IN  /\ p.metal = query.metal
            /\ p.buy_price # None
            /\ p.in_stock = TRUE
            /\ p.weight_oz[1] > 0

\* Options are returned while the catalog holds an out-of-stock product of the
\* queried metal whose single unit is the target weight.
C2_Witness ==
    /\ deals # <<>>
    /\ \E i \in 1..Len(catalog) :
          /\ catalog[i].metal = query.metal
          /\ ~catalog[i].in_stock
          /\ catalog[i].buy_price # None
          /\ catalog[i].weight_oz = query.target_oz

\* The product passes the filter of the query.
Filtered(p) ==
    /\ p.metal = query.metal
    /\ p.buy_price # None /\ p.buy_price[1] # 0
    /\ p.in_stock
    /\ p.weight_oz[1] > 0

\* q is the integer round() gives for x: the nearest, the even one of two.
IsRounded(q, x) ==
    LET twice == RMul(RInt(2), RAbs(RSub(RInt(q), x)))
    IN  RLt(twice, RInt(1)) \/ (twice = RInt(1) /\ q % 2 = 0)

\* The whole multiples of the product worth looking at for the target.
Multiples(p, target_oz) ==
    1..((target_oz[1] * p.weight_oz[2]) \div (target_oz[2] * p.weight_oz[1]) + 1)

\* C3: each filtered product yields exactly one option when
\* qty = round(target_oz / weight_oz) is at least 1 and qty units are within 1%
\* of the target, and none otherwise; the option carries that qty; the options
\* are no more than the filtered products.
C3_OneOptionPerWholeMultiple ==
    query # None =>
        /\ \A i \in 1..Len(catalog) :
              LET p == catalog[i]
                  hits == {k \in 1..Len(deals) : deals[k].name = p.name}
              IN  IF /\ Filtered(p)
                     /\ \E q \in Multiples(p, query.target_oz) :
                           /\ IsRounded(q, RDiv(query.target_oz, p.weight_oz))
                           /\ WithinOnePercent(q, p, query.target_oz)
                  THEN /\ Cardinality(hits) = 1
                       /\ \A k \in hits :
                             /\ deals[k].qty >= 1
                             /\ IsRounded(deals[k].qty, RDiv(query.target_oz, p.weight_oz))
                  ELSE hits = {}
        /\ Len(deals) <= Cardinality({i \in 1..Len(catalog) : Filtered(catalog[i])})

\* One filtered product yields an option of several units, rounded up from a
\* quotient that is not whole, and another filtered product yields none.
C3_Witness ==
    /\ query # None
    /\ \E k \in 1..Len(deals) :
          /\ deals[k].qty >= 2
          /\ RLt(RDiv(query.target_oz, ProductOf(deals[k]).weight_oz), RInt(deals[k].qty))
    /\ \E i \in 1..Len(catalog) :
          /\ Filtered(catalog[i])
          /\ \A k \in 1..Len(deals) : deals[k].name # catalog[i].name

\* C4: the options are in ascending order of total_cost, and options of equal
\* total_cost are in the order of their products in the catalog.
C4_SortedStable ==
    \A i, j \in 1..Len(deals) :
        i < j =>
            /\ RLe(deals[i].total_cost, deals[j].total_cost)
            /\ deals[i].total_cost = deals[j].total_cost =>
                  CatalogIndex(deals[i]) < CatalogIndex(deals[j])

\* Three options, two of one total cost, and the catalog order is not the
\* order of the costs.
C4_Witness ==
    /\ Len(deals) = 3
    /\ \E i, j \in 1..Len(deals) : i < j /\ deals[i].total_cost = deals[j].total_cost
    /\ \E i, j \in 1..Len(deals) : i < j /\ CatalogIndex(deals[i]) > CatalogIndex(deals[j])

\* C5: total_cost is qty times the product's buy price, and cost_per_oz is that
\* cost over the ounces achieved, which is the buy price over the unit weight
\* whatever the qty, each rounded to 2 decimals.
C5_CostFields ==
    \A k \in 1..Len(deals) :
        LET p == ProductOf(deals[k])
            achieved_oz == RMul(RInt(deals[k].qty), p.weight_oz)
        IN  /\ deals[k].total_cost = Round(RMul(RInt(deals[k].qty), p.buy_price), 2)
            /\ deals[k].cost_per_oz =
                  Round(RDiv(RMul(RInt(deals[k].qty), p.buy_price), achieved_oz), 2)
            /\ deals[k].cost_per_oz = Round(RDiv(p.buy_price, p.weight_oz), 2)

\* An option of several units whose cost per ounce needed the rounding.
C5_Witness ==
    \E k \in 1..Len(deals) :
        /\ deals[k].qty >= 2
        /\ deals[k].cost_per_oz # RDiv(ProductOf(deals[k]).buy_price, ProductOf(deals[k]).weight_oz)

\* The positions of the gold products in stock that carry a buy price.
GoldOnOffer ==
    {i \in 1..Len(catalog) :
        catalog[i].metal = "gold" /\ catalog[i].in_stock /\ catalog[i].buy_price # None}

\* C15: when the gold products on offer are a 1oz product at 3000 and a 1/2oz
\* product at 1550, the query for 1oz of gold returns exactly two options:
\* the 1oz product once for 3000, then the 1/2oz product twice for 3100.
C15_OunceBeforeTwoHalves ==
    \A one, half \in GoldOnOffer :
        (/\ GoldOnOffer = {one, half}
         /\ catalog[one].weight_oz = RInt(1) /\ catalog[one].buy_price = RInt(3000)
         /\ catalog[half].weight_oz = Rat(1, 2) /\ catalog[half].buy_price = RInt(1550)
         /\ query # None /\ query.metal = "gold" /\ query.target_oz = RInt(1))
        => /\ Len(deals) = 2
           /\ deals[1].name = catalog[one].name
           /\ deals[1].qty = 1 /\ deals[1].total_cost = RInt(3000)
           /\ deals[2].name = catalog[half].name
           /\ deals[2].qty = 2 /\ deals[2].total_cost = RInt(3100)

\* The query answered over such a catalog, the 1/2oz product listed before
\* the 1oz product and a silver product between them.
C15_Witness ==
    /\ Len(catalog) = 3
    /\ catalog[1].metal = "gold" /\ catalog[1].weight_oz = Rat(1, 2)
    /\ catalog[1].buy_price = RInt(1550) /\ catalog[1].in_stock
    /\ catalog[2].metal = "silver"
    /\ catalog[3].metal = "gold" /\ catalog[3].weight_oz = RInt(1)
    /\ catalog[3].buy_price = RInt(3000) /\ catalog[3].in_stock
    /\ query # None /\ query.metal = "gold" /\ query.target_oz = RInt(1)
    /\ Len(deals) = 2 /\ deals[1].qty = 1 /\ deals[2].qty = 2

\* The whole numbers of units up to twice the quotient of the target by the
\* weight of the product.
UnitCounts(p, target_oz) ==
    1..(2 * ((target_oz[1] * p.weight_oz[2]) \div (target_oz[2] * p.weight_oz[1])) + 1)

\* C25: no achievable plan is missed: a filtered product of which some whole
\* number of units comes within 1% of a target above zero yields an option,
\* and its qty is a nearest integer to target_oz / weight_oz, also when the
\* quotient lies halfway between two integers.
C25_NoAchievablePlanMissed ==
    query # None /\ query.target_oz[1] > 0 =>
        \A i \in 1..Len(catalog) :
            LET p == catalog[i]
            IN  (/\ Filtered(p)
                 /\ \E n \in UnitCounts(p, query.target_oz) :
                       WithinOnePercent(n, p, query.target_oz))
                => \E k \in 1..Len(deals) :
                      /\ deals[k].name = p.name
                      /\ RLe(RMul(RInt(2),
                                  RAbs(RSub(RInt(deals[k].qty),
                                            RDiv(query.target_oz, p.weight_oz)))),
                             RInt(1))
                      /\ WithinOnePercent(deals[k].qty, p, query.target_oz)

\* An option for a product whose quotient is halfway between two integers,
\* both of them within 1% of the target.
C25_Witness ==
    /\ query # None /\ query.target_oz[1] > 0
    /\ \E k \in 1..Len(deals) :
          LET p == ProductOf(deals[k])
              twice == RMul(RInt(2), RDiv(query.target_oz, p.weight_oz))
          IN  /\ twice[2] = 1 /\ twice[1] % 2 = 1
              /\ WithinOnePercent(deals[k].qty + 1, p, query.target_oz)

(***************************************************************************)
(* Properties of the catalog builder and the adapters, checked under Spec  *)
(* and SpecDealer                                                          *)
(***************************************************************************)

\* C6: every product of the catalog has a stored weight_oz above zero and a buy
\* price that is present.
C6_PositiveWeightAndPrice ==
    \A i \in 1..Len(all_products) :
        /\ all_products[i].weight_oz[1] > 0
        /\ all_products[i].buy_price # None

\* C7 as stated: price_per_oz is the final buy price over the stored weight_oz,
\* rounded to 2 decimals.
C7_PricePerStoredOz ==
    \A i \in 1..Len(all_products) :
        LET p == all_products[i]
        IN  p.weight_oz[1] > 0 =>
                p.price_per_oz = Round(RDiv(p.buy_price, p.weight_oz), 2)

\* C7: price_per_oz is the final buy price over the weight parsed from the
\* name, before that weight is rounded to the 4 decimals of the stored
\* weight_oz, rounded to 2 decimals; after a tier override it is that of the
\* price taken over.
C7_PricePerParsedOz ==
    \A i \in 1..Len(all_products) :
        LET p == all_products[i]
            weight_oz == parse_weight_oz(p.name).value
        IN  /\ p.weight_oz = Round(weight_oz, 4)
            /\ p.price_per_oz = Round(RDiv(p.buy_price, weight_oz), 2)

\* The prices the fetched store pages list.
ListedPrices ==
    UNION {{parse_price(fetched["scrape_abc"][k].body[b].price) :
                b \in 1..Len(fetched["scrape_abc"][k].body)} :
           k \in {n \in 1..Len(fetched["scrape_abc"]) :
                    fetched["scrape_abc"][n].status = "ok"}}

\* A product whose buy price is the first tier's and not the listed one, and
\* whose price per ounce differs from that over the stored weight.
C7_Witness ==
    /\ fetched["scrape_abc"] # None
    /\ \E i \in 1..Len(all_products) :
          LET p == all_products[i]
          IN  /\ p.dealer_id = "abc"
              /\ p.buy_price \notin ListedPrices
              /\ p.price_per_oz # Round(RDiv(p.buy_price, p.weight_oz), 2)

\* The products of the scraper's dealer in the result, in their order.
ProductsIn(products, scraper) ==
    SelectSeq(products, LAMBDA p : p.dealer = DealerOf(scraper))

\* C8: the run ends with a result whichever scrapers failed; a scraper that
\* raised, or whose requests failed, contributes no product, and the products
\* every other scraper returned are all in the result.
C8_ContinuesPastFailure ==
    pc = "done" =>
        /\ result # None
        /\ \A i \in 1..Len(scrapers) :
              LET s == scrapers[i]
              IN  /\ returned[s].called
                  /\ ProductsIn(result.products, s) =
                        IF returned[s].raised THEN <<>> ELSE returned[s].value
                  /\ (\A k \in 1..Len(fetched[s]) : fetched[s][k] = FetchFailed) =>
                        ~returned[s].raised /\ returned[s].value = <<>>

\* One scraper raised, and the result holds the products of the two others.
C8_Witness ==
    /\ pc = "done"
    /\ returned["scrape_abc"].raised
    /\ ProductsIn(result.products, "scrape_ainslie") # <<>>
    /\ ProductsIn(result.products, "scrape_perth_mint") # <<>>

\* The scraper failed outright: it raised, or its requests failed.
Failed(s) ==
    /\ returned[s].called
    /\ \/ returned[s].raised
       \/ \A k \in 1..Len(fetched[s]) : fetched[s][k] = FetchFailed

FailedDealers == {DealerOf(scrapers[i]) : i \in {n \in 1..Len(scrapers) : Failed(scrapers[n])}}

RowProducts ==
    LET html == fetched["scrape_ainslie"][1].body
        sections == metal_sections(html)
        made == Concat([i \in 1..Len(sections) |->
                    LET rows == product_rows(sections[i].section_html)
                    IN  [k \in 1..Len(rows) |-> AinslieProduct(sections[i].metal, rows[k])]])
    IN  {made[i].value : i \in {n \in 1..Len(made) : ~made[n].raised /\ made[n].value # None}}

\* C10: an adapter raises only when a request itself raised, and every row of
\* the chart page that makes a product on its own is in the adapter's output.
C10_SkipsItemsIndividually ==
    /\ \A i \in 1..Len(scrapers) :
          returned[scrapers[i]].raised =>
              \E k \in 1..Len(fetched[scrapers[i]]) : fetched[scrapers[i]][k] = FetchRaised
    /\ returned["scrape_ainslie"].called /\ fetched["scrape_ainslie"][1].status = "ok" =>
          \A v \in RowProducts :
              \E n \in 1..Len(returned["scrape_ainslie"].value) :
                  returned["scrape_ainslie"].value[n] = v

\* The item blocks of the store pages that were fetched.
BlocksFetched ==
    UNION {{fetched["scrape_abc"][k].body[b] : b \in 1..Len(fetched["scrape_abc"][k].body)} :
           k \in {n \in 1..Len(fetched["scrape_abc"]) :
                    fetched["scrape_abc"][n].status = "ok"}}

\* The products of the item-grid adapter in the catalog.
GridProducts == {all_products[i] : i \in {n \in 1..Len(all_products) : all_products[n].dealer_id = "abc"}}

\* The tiers of the block's table, none without a table.
TableTiers(block) ==
    IF block.json.kind = "table"
    THEN {block.json.members[i] : i \in 1..Len(block.json.members)} ELSE {}

\* The tiers whose price parses to an amount.
PricedTiers(block) == {t \in TableTiers(block) : parse_price(t.price) # None}

\* The tier of the lowest quantity key among tiers.
LowestTier(tiers) == CHOOSE t \in tiers : \A u \in tiers : TierOrder(t.key) <= TierOrder(u.key)

\* C20 as stated: with a table of more than one tier the buy price is that of
\* the lowest-quantity tier and the table is stored; with one tier or fewer,
\* or no table, the listed price is kept and no table is stored.
C20_OverrideAboveOneTier ==
    fetched["scrape_abc"] # None =>
        \A block \in BlocksFetched, p \in GridProducts :
            IF Cardinality(TableTiers(block)) > 1
            THEN /\ p.buy_price = parse_price(LowestTier(TableTiers(block)).price)
                 /\ "volume_pricing" \in DOMAIN p
            ELSE /\ p.buy_price = parse_price(block.price)
                 /\ "volume_pricing" \notin DOMAIN p

\* C20: with a table of one priced tier or more, the buy price, and the price
\* per ounce with it, is that of the priced tier of the lowest quantity key;
\* with no priced tier, or no table, the listed price is kept; the priced
\* tiers are stored, in the order of their keys, only when more than one.
C20_OverrideFromFirstPricedTier ==
    fetched["scrape_abc"] # None =>
        \A block \in BlocksFetched, p \in GridProducts :
            LET priced == PricedTiers(block)
                weight_oz == parse_weight_oz(p.name).value
            IN  /\ p.buy_price = IF priced # {}
                                 THEN parse_price(LowestTier(priced).price)
                                 ELSE parse_price(block.price)
                /\ p.price_per_oz = Round(RDiv(p.buy_price, weight_oz), 2)
                /\ "volume_pricing" \in DOMAIN p <=> Cardinality(priced) > 1
                /\ "volume_pricing" \in DOMAIN p =>
                      /\ Len(p.volume_pricing) = Cardinality(priced)
                      /\ p.volume_pricing[1].price = p.buy_price
                      /\ \A i \in 1..Len(p.volume_pricing) :
                            \E t \in priced : /\ p.volume_pricing[i].price = parse_price(t.price)
                                              /\ p.volume_pricing[i].min_qty = t.min
                                              /\ p.volume_pricing[i].max_qty = t.max

\* A product whose block has a table of one tier: the tier's price was taken
\* over from the listed one and no table is stored.
C20_Witness ==
    /\ fetched["scrape_abc"] # None
    /\ \E block \in BlocksFetched, p \in GridProducts :
          /\ Cardinality(TableTiers(block)) = 1
          /\ p.buy_price # parse_price(block.price)
          /\ "volume_pricing" \notin DOMAIN p

(***************************************************************************)
(* Properties of the build followed by a query, checked under SpecSite     *)
(***************************************************************************)

\* The steps a run has left before the query is answered.
StepsLeft(at) ==
    CASE at = "scrape_ainslie" -> 5
      [] at = "scrape_abc" -> 4
      [] at = "scrape_perth_mint" -> 3
      [] at = "result" -> 2
      [] at = "done" -> 1
      [] OTHER -> 0

\* Whatever query comes over the catalog built, find_best_deals returns.
EveryQueryReturns ==
    pc = "done" =>
        \A metal \in QueryMetals, target_oz \in SiteTargets :
            ~find_best_deals_call(result.products, metal, target_oz).raised

Hung == {s \in DOMAIN fetched :
            fetched[s] # None /\ \E k \in 1..Len(fetched[s]) : fetched[s][k] = FetchHangs}

\* C12: a dealer that is slow without end blocks no other dealer: the run is
\* never left waiting on one dealer, every scraper is called whatever the
\* scrapers before it met, and the result is built from the dealers that
\* answered, the hanging one contributing nothing.
C12_SlowDealerBlocksNoOne ==
    /\ pc # "waiting"
    /\ \A s \in Hung : returned[s].called \/ pc \in {"result", "done"} =>
          \A i \in 1..Len(all_products) : all_products[i].dealer # DealerOf(s)

(***************************************************************************)
(* Properties of interleaved deal queries, checked under SpecPair          *)
(***************************************************************************)

\* C13: find_best_deals leaves the catalog and its product records as they
\* were, and a call returns what the same query returns when run alone on
\* the catalog, whatever the other call did before, after or in between.
C13_QueriesIndependent ==
    /\ [][catalog' = catalog]_vars
    /\ [](\A c \in Callers :
            pc[c] = "returned" =>
                returned[c] = find_best_deals(catalog, query[c].metal, query[c].target_oz))

\* A call has returned deals while the other call, with another target, is
\* inside its loop with a deal collected.
C13_Witness ==
    /\ pc[1] = "returned" /\ returned[1] # <<>>
    /\ pc[2] = "loop" /\ deals[2] # <<>> /\ all_products[2] <= Len(fetched[2])
    /\ query[1] # query[2]

(***************************************************************************)
(* Properties of two builds from one content, checked under SpecTwice      *)
(***************************************************************************)

WordUnit(w) ==
    CASE w \in {W_half, W_over_zero} -> "fractional ounce"
      [] w = W_2oz -> "ounce"
      [] w = W_1kg -> "kilogram"
      [] w \in {W_100g, W_gram} -> "gram"
      [] w = W_tael -> "tael"
      [] OTHER -> "none"

\* The weight in troy ounces the word stands for; 1/0 stands for none.
WordOunces(w) ==
    CASE w = W_half -> Rat(1, 2)
      [] w = W_2oz -> RInt(2)
      [] w = W_1kg -> RDiv(RInt(1000), Rat(311035, 10000))
      [] w = W_100g -> RDiv(RInt(100), Rat(311035, 10000))
      [] w = W_gram -> RDiv(Rat(5, 2), Rat(311035, 10000))
      [] w = W_tael -> RDiv(Rat(375, 10), Rat(311035, 10000))
      [] OTHER -> "undefined"

UnitOrder == <<"fractional ounce", "ounce", "kilogram", "gram", "tael">>

\* The first word of the name that carries the first unit, in UnitOrder, that
\* the name carries at all.
DecidingWord(words) ==
    LET units == {k \in 1..Len(UnitOrder) : \E i \in 1..Len(words) : WordUnit(words[i]) = UnitOrder[k]}
        first == CHOOSE k \in units : \A j \in units : k <= j
        at == {i \in 1..Len(words) : WordUnit(words[i]) = UnitOrder[first]}
    IN  words[CHOOSE i \in at : \A j \in at : i <= j]

CarriesUnit(words) == \E i \in 1..Len(words) : WordUnit(words[i]) # "none"

\* C16: the weight is the conversion of the first pattern, in the order
\* fractional ounce, ounce, kilogram, gram, tael, that matches anywhere in the
\* name, wherever the units stand in it; a name matching no pattern is none,
\* but for the special case.
C16_FirstPatternInOrderWins ==
    pc = "parse_weight_oz" =>
        IF CarriesUnit(query.words)
        THEN WordOunces(DecidingWord(query.words)) # "undefined" =>
                /\ ~result.raised
                /\ result.value = WordOunces(DecidingWord(query.words))
        ELSE /\ ~result.raised
             /\ result.value = IF \E i \in 1..Len(query.words) : query.words[i] = W_maplegram
                               THEN RDiv(RInt(25), Rat(311035, 10000)) ELSE None

\* A name with the gram word before the fraction word gave half an ounce.
C16_Witness ==
    /\ pc = "parse_weight_oz"
    /\ query.words = <<W_100g, W_half>>
    /\ result = Returns(Rat(1, 2))

\* A word of the kind is among the words.
HasWord(words, kind) == \E i \in 1..Len(words) : words[i] \in kind

\* C17: the type follows a strict precedence: an unallocated or pool word in
\* the name gives unallocated whatever else the name holds; then a coin name,
\* or a hint with "coin", gives coin; then minted or tablet gives minted_bar;
\* then round gives round; then a bar word gives bar; then the hint decides,
\* cast for bar and minted for minted_bar; then bar.
C17_TypePrecedence ==
    pc = "classify_product_type" =>
        result = Returns(
            IF HasWord(query.words, {Y_pool, Y_unallocated}) THEN "unallocated"
            ELSE IF HasWord(query.words, {Y_coin, Y_kangaroo}) \/ query.category_hint = H_coins
                 THEN "coin"
            ELSE IF HasWord(query.words, {Y_minted, Y_tablet}) THEN "minted_bar"
            ELSE IF HasWord(query.words, {Y_round}) THEN "round"
            ELSE IF HasWord(query.words, {Y_bar, Y_ingot}) THEN "bar"
            ELSE IF query.category_hint = H_cast THEN "bar"
            ELSE IF query.category_hint = H_minted THEN "minted_bar"
            ELSE "bar")

\* A name with the bar word before a coin name, under the hint of cast bars,
\* was typed coin.
C17_Witness ==
    /\ pc = "classify_product_type"
    /\ query.words = <<Y_bar, Y_kangaroo>>
    /\ query.category_hint = H_cast
    /\ result = Returns("coin")

\* The words of the name and the section of the call.
MetalsNamed == {query.words[i] : i \in 1..Len(query.words)} \cup {query.section}

\* C18: the metal is platinum when platinum is named in the name or the
\* section, else silver, else palladium, wherever the words stand, and gold
\* when none of the three is named; it is always one of the four metals.
C18_MetalPriority ==
    pc = "classify_metal" =>
        /\ result = Returns(
              IF M_platinum \in MetalsNamed THEN "platinum"
              ELSE IF M_silver \in MetalsNamed THEN "silver"
              ELSE IF M_palladium \in MetalsNamed THEN "palladium"
              ELSE "gold")
        /\ result.value \in {"gold", "silver", "platinum", "palladium"}

\* A name with silver before platinum was classified platinum.
C18_Witness ==
    /\ pc = "classify_metal"
    /\ query.words = <<M_silver, M_platinum>>
    /\ query.section = M_gold
    /\ result = Returns("platinum")

\* C19: parse_price never raises: for every input it returns an amount, the
\* text without currency symbol, separators and white space read as a number,
\* or none, and none for an empty or malformed input.
C19_ParsePriceNeverRaises ==
    pc = "parse_price" =>
        /\ ~result.raised
        /\ query.type = "str" =>
              LET bare == Without(query.value, {"$", ",", " "})
              IN  result.value = IF IsFloat(bare) THEN FloatValue(bare) ELSE None

(***************************************************************************)
(* Properties of the table-layout adapter, checked under SpecDealer        *)
(***************************************************************************)

\* The chart page that was fetched.
ChartPage == fetched["scrape_ainslie"][1].body

\* The positions of the section headers before position r of the page.
HeadersBefore(r) == {h \in 1..(r - 1) : ChartPage[h].kind = "header"}

\* The products of the rows that follow a header, each under the metal of the
\* header that most recently precedes it, in page order.
ProductsByLastHeader ==
    LET rows == SelectSeq([r \in 1..Len(ChartPage) |-> r],
                          LAMBDA r : ChartPage[r].kind = "row" /\ HeadersBefore(r) # {})
    IN  Present([k \in 1..Len(rows) |->
            LET last == CHOOSE h \in HeadersBefore(rows[k]) :
                            \A g \in HeadersBefore(rows[k]) : g <= h
            IN  AinslieProduct(LabelMetal(ChartPage[last].label), ChartPage[rows[k]]).value])

\* C22: every row extracted has the metal of the section header that most
\* recently precedes it in the page, in whatever order the headers occur; the
\* rows before the first header are not extracted, and a metal without a
\* header has no product.
C22_MetalOfPrecedingHeader ==
    (/\ pc = "returned"
     /\ returned["scrape_ainslie"].called
     /\ fetched["scrape_ainslie"][1].status = "ok")
    => /\ returned["scrape_ainslie"].value = ProductsByLastHeader
       /\ \A k \in 1..Len(AinslieLabels) :
             Find(ChartPage, AinslieLabels[k]) = 0 =>
                 \A i \in 1..Len(returned["scrape_ainslie"].value) :
                     returned["scrape_ainslie"].value[i].metal # LabelMetal(AinslieLabels[k])

(***************************************************************************)
(* Properties of the structured-API adapter, checked under SpecPerth       *)
(***************************************************************************)

\* The items of the category responses, in the order they were fetched.
ItemsFetched ==
    IF fetched["scrape_perth_mint"] = None THEN <<>>
    ELSE Concat([c \in 1..Len(fetched["scrape_perth_mint"]) |->
                    LET net == fetched["scrape_perth_mint"][c]
                    IN  IF net.status = "ok" /\ net.body.json = "ok" THEN net.body.items
                        ELSE <<>>])

\* The products scrape_perth_mint returned.
PerthProducts == returned["scrape_perth_mint"].value

\* The first position among at.
FirstOf(at) == CHOOSE i \in at : \A j \in at : i <= j

\* No two products share a SKU.
DistinctSkus ==
    \A i, j \in 1..Len(PerthProducts) : PerthProducts[i].sku = PerthProducts[j].sku => i = j

\* C21 as stated: no two products share a SKU, and the product of a SKU is
\* built from the first item with that SKU in fetch order.
C21_FirstItemOfSkuWins ==
    /\ DistinctSkus
    /\ \A i \in 1..Len(PerthProducts) :
          LET p == PerthProducts[i]
              with_sku == {k \in 1..Len(ItemsFetched) : ItemsFetched[k].skuItemNumber = p.sku}
          IN  p.url = ItemsFetched[FirstOf(with_sku)].link

\* The item has a title or a description and is neither archived nor no
\* longer available.
Listable(item) ==
    /\ item.title # <<>> \/ item.description # <<>>
    /\ ~item.isArchived
    /\ ~item.isNoLongerAvailable

\* C21: no two products share a SKU over the category calls of a run, and
\* the product of a SKU is built from the first item with that SKU, in fetch
\* order, among the items that have a title and are neither archived nor no
\* longer available; the items with that SKU after it are dropped.
C21_FirstListableItemOfSkuWins ==
    /\ DistinctSkus
    /\ \A i \in 1..Len(PerthProducts) :
          LET p == PerthProducts[i]
              with_sku == {k \in 1..Len(ItemsFetched) :
                              /\ ItemsFetched[k].skuItemNumber = p.sku
                              /\ Listable(ItemsFetched[k])}
          IN  p.url = ItemsFetched[FirstOf(with_sku)].link

\* Two priced items of one SKU came in different category calls, and the one
\* product is that of the first.
C21_Witness ==
    /\ pc = "returned"
    /\ ItemsFetched = <<I_adjusted, I_base>>
    /\ Len(fetched["scrape_perth_mint"][1].body.items) = 1
    /\ Len(PerthProducts) = 1
    /\ PerthProducts[1].url = I_adjusted.link

\* The item of the pool a product was built from: the one with its link.
SourceItem(p) == CHOOSE item \in ItemPool : item.link = p.url

\* The item alone makes a product: it is listed, priced, bullion, and its
\* title has a weight.
MakesProduct(item) ==
    /\ Listable(item)
    /\ item.adjustedPrice # None \/ item.basePrice # None
    /\ item.type = "Bullion"
    /\ item.title \in {T_1oz}

C24_SkippedItemKeepsSkuFree ==
    pc = "returned" =>
        \A k \in 1..Len(ItemsFetched) :
            MakesProduct(ItemsFetched[k]) =>
                \E i \in 1..Len(PerthProducts) :
                    PerthProducts[i].sku = ItemsFetched[k].skuItemNumber

====
